---- MODULE Spec2Model ----
(***************************************************************************)
(* A model of confique's error type (src/error.rs) and of the literal      *)
(* value model of its schema metadata (src/meta.rs).                       *)
(*                                                                         *)
(* Text is a TLA+ string; "\o" concatenates as write!'s "{}" does.  An     *)
(* Option is a record with a boolean field some.  A boxed dyn Error cause *)
(* is the string of the cause's own message.                               *)
(***************************************************************************)
EXTENDS Integers, Sequences, FiniteSets, TLC

VARIABLES
    error,      \* error.rs: the Error under inspection (NoError before any is built)
    shown,      \* error.rs: what Display::fmt wrote for error
    debugged,   \* error.rs: what Debug::fmt wrote for error
    cause,      \* error.rs: what Error::source returned for error
    intA,       \* meta.rs: an Integer handed to Display
    intB,       \* meta.rs: a second Integer handed to Display
    textA,      \* meta.rs: the text Display wrote for intA
    textB,      \* meta.rs: the text Display wrote for intB
    key,        \* meta.rs: a MapKey handed to Expr::from
    converted,  \* meta.rs: the Expr that Expr::from(key) returned
    lhs,        \* meta.rs: left operand of Expr's ==
    rhs,        \* meta.rs: right operand of Expr's ==
    eq,         \* meta.rs: the result of lhs == rhs
    map,        \* meta.rs: the slice of MapEntry given to serialize_map
    ser,        \* meta.rs: what the serializer received from serialize_map
    ret         \* meta.rs: serialize_map's return ("Ok", "Err"; "none" before a call)

errorVars == <<error, shown, debugged, cause>>
displayVars == <<intA, intB, textA, textB>>
convVars == <<key, converted>>
eqVars == <<lhs, rhs, eq>>
serVars == <<map, ser, ret>>
vars == <<errorVars, displayVars, convVars, eqVars, serVars>>

(***************************************************************************)
(* Options.                                                                *)
(***************************************************************************)
None == [some |-> FALSE]
Some(v) == [some |-> TRUE, value |-> v]

(***************************************************************************)
(* Paths.  A PathBuf is an OS string: a sequence of chunks, each either    *)
(* valid UTF-8 text or one byte that is not valid UTF-8.                   *)
(***************************************************************************)
Utf8(text) == [valid |-> TRUE, text |-> text]
BadByte(b) == [valid |-> FALSE, byte |-> b]

\* What Path::display() writes for an invalid byte: U+FFFD.
ReplacementCharacter == "<U+FFFD>"

RECURSIVE PathDisplay(_)
PathDisplay(path) ==
    IF path = <<>> THEN ""
    ELSE (IF Head(path).valid THEN Head(path).text ELSE ReplacementCharacter)
         \o PathDisplay(Tail(path))

IsUtf8(path) == \A i \in 1..Len(path) : path[i].valid

PathBufs ==
    { <<Utf8("/etc/app.toml")>>,
      <<Utf8("conf/app")>>,
      <<Utf8("/etc/app"), BadByte(255), Utf8(".toml")>> }

(***************************************************************************)
(* ErrorInner and Error.                                                   *)
(***************************************************************************)
ValuePaths == {"port", "http.port", "outer.inner.port"}
IoErrors == {"entity not found", "permission denied"}
DeErrors == {"expected an integer", "unexpected end of input"}
SourceLabels == {"file 'foo.toml'", "environment variable 'FOO_PORT'"}
FieldNames == {"port", "http.bind"}
EnvKeys == {"PORT", "APP_BIND"}
EnvMsgs == {"invalid digit", "number too large to fit in target type"}

OptionOf(S) == {None} \cup {Some(v) : v \in S}

\* The tuple variant MissingValue(String): its one field is named f0 here.
MissingValue(path) == [kind |-> "MissingValue", f0 |-> path]
Io(path, err) == [kind |-> "Io", path |-> path, err |-> err]
Deserialization(source, err) ==
    [kind |-> "Deserialization", source |-> source, err |-> err]
EnvDeserialization(field, k, msg) ==
    [kind |-> "EnvDeserialization", field |-> field, key |-> k, msg |-> msg]
UnsupportedFileFormat(path) == [kind |-> "UnsupportedFileFormat", path |-> path]
MissingFileExtension(path) == [kind |-> "MissingFileExtension", path |-> path]
MissingRequiredFile(path) == [kind |-> "MissingRequiredFile", path |-> path]

ErrorInner ==
    {MissingValue(p) : p \in ValuePaths}
    \cup {Io(p, e) : p \in OptionOf(PathBufs), e \in IoErrors}
    \cup {Deserialization(s, e) : s \in OptionOf(SourceLabels), e \in DeErrors}
    \cup {EnvDeserialization(f, k, m) : f \in FieldNames, k \in EnvKeys, m \in EnvMsgs}
    \cup {UnsupportedFileFormat(p) : p \in PathBufs}
    \cup {MissingFileExtension(p) : p \in PathBufs}
    \cup {MissingRequiredFile(p) : p \in PathBufs}

\* impl From<ErrorInner> for Error
ErrorFrom(inner) == [inner |-> inner]

NoError == [inner |-> [kind |-> "none"]]
NoText == [written |-> FALSE]
Written(text) == [written |-> TRUE, text |-> text]
NotCalled == [called |-> FALSE]
Returned(v) == [called |-> TRUE, value |-> v]

\* Source with the Deserialization arm moved to the arms that return None.
SourceDropsBoxedCause(e) ==
    IF e.inner.kind = "Io" THEN Some(e.inner.err) ELSE None

\* impl std::error::Error for Error: fn source
Source(e) ==
    CASE e.inner.kind = "Io" -> Some(e.inner.err)
      [] e.inner.kind = "Deserialization" -> Some(e.inner.err)
      [] e.inner.kind \in {"MissingValue", "EnvDeserialization",
                           "UnsupportedFileFormat", "MissingFileExtension",
                           "MissingRequiredFile"} -> None

\* The arms of impl fmt::Display for Error, one operator per written template.
\* DisplayMissingValue with the path written by {:?} in place of {}.
DisplayMissingValueDebugPath(path) ==
    "required configuration value is missing: '\"" \o path \o "\"'"

DisplayMissingValue(path) ==
    "required configuration value is missing: '" \o path \o "'"

\* DisplayIo with the spelling of "occured" put right.
DisplayIoRespelled(path) ==
    IF path.some
    THEN "IO error occurred while reading configuration file '"
         \o PathDisplay(path.value) \o "'"
    ELSE "IO error occurred while loading configuration"

DisplayIo(path) ==
    IF path.some
    THEN "IO error occured while reading configuration file '"
         \o PathDisplay(path.value) \o "'"
    ELSE "IO error occured while loading configuration"

\* DisplayDeserialization with the label quoted like the paths of the other arms.
DisplayDeserializationQuoted(source) ==
    IF source.some
    THEN "failed to deserialize configuration from '" \o source.value \o "'"
    ELSE "failed to deserialize configuration"

DisplayDeserialization(source) ==
    IF source.some
    THEN "failed to deserialize configuration from " \o source.value
    ELSE "failed to deserialize configuration"

\* The grave accent U+0060, the quote of the EnvDeserialization template.  A
\* string literal holds one only when an apostrophe follows it, so it is cut
\* out of such a literal.
GraveAccent == SubSeq("`'", 1, 1)

\* DisplayEnvDeserialization with the apostrophes of the other arms.
DisplayEnvDeserializationApostrophes(field, k, msg) ==
    "failed to deserialize value '" \o field
    \o "' from environment variable '" \o k \o "': " \o msg

DisplayEnvDeserialization(field, k, msg) ==
    "failed to deserialize value " \o GraveAccent \o field \o GraveAccent
    \o " from environment variable " \o GraveAccent \o k \o GraveAccent
    \o ": " \o msg

DisplayUnsupportedFileFormat(path) ==
    "unknown configuration file format/extension: '" \o PathDisplay(path) \o "'"

DisplayMissingFileExtension(path) ==
    "cannot guess configuration file format due to missing file extension in '"
    \o PathDisplay(path) \o "'"

DisplayMissingRequiredFile(path) ==
    "required configuration file does not exist: '" \o PathDisplay(path) \o "'"

\* impl fmt::Display for Error
Display(e) ==
    CASE e.inner.kind = "MissingValue" -> DisplayMissingValue(e.inner.f0)
      [] e.inner.kind = "Io" -> DisplayIo(e.inner.path)
      [] e.inner.kind = "Deserialization" -> DisplayDeserialization(e.inner.source)
      [] e.inner.kind = "EnvDeserialization" ->
            DisplayEnvDeserialization(e.inner.field, e.inner.key, e.inner.msg)
      [] e.inner.kind = "UnsupportedFileFormat" ->
            DisplayUnsupportedFileFormat(e.inner.path)
      [] e.inner.kind = "MissingFileExtension" ->
            DisplayMissingFileExtension(e.inner.path)
      [] e.inner.kind = "MissingRequiredFile" ->
            DisplayMissingRequiredFile(e.inner.path)

\* Debug as #[derive(Debug)] would write it: the kind by name.
DebugDerived(e) == "Error { inner: " \o e.inner.kind \o " { .. } }"

\* impl fmt::Debug for Error
Debug(e) == Display(e)

(***************************************************************************)
(* Operations on an Error.                                                 *)
(***************************************************************************)
\* Error::from(inner): a new error replaces the one under inspection.
From(inner) ==
    /\ error' = ErrorFrom(inner)
    /\ shown' = NoText
    /\ debugged' = NoText
    /\ cause' = NotCalled
    /\ UNCHANGED <<displayVars, convVars, eqVars, serVars>>

\* format!("{}", error)
DisplayFmt ==
    /\ error # NoError
    /\ shown' = Written(Display(error))
    /\ UNCHANGED <<error, debugged, cause, displayVars, convVars, eqVars, serVars>>

\* format!("{:?}", error)
DebugFmt ==
    /\ error # NoError
    /\ debugged' = Written(Debug(error))
    /\ UNCHANGED <<error, shown, cause, displayVars, convVars, eqVars, serVars>>

\* error.source()
SourceCall ==
    /\ error # NoError
    /\ cause' = Returned(Source(error))
    /\ UNCHANGED <<error, shown, debugged, displayVars, convVars, eqVars, serVars>>

(***************************************************************************)
(* meta.rs: Integer and its Display.                                       *)
(***************************************************************************)
\* Sample values: every integer of magnitude at most MaxInt, and the values
\* around the limits of the 8-bit widths.
MaxInt == 7
IntegerValues == (-MaxInt..MaxInt) \cup {-129, -128, 80, 127, 128, 255, 256}

UnsignedVariants == {"U8", "U16", "U32", "U64", "U128", "Usize"}
SignedVariants == {"I8", "I16", "I32", "I64", "I128", "Isize"}
IntegerVariants == UnsignedVariants \cup SignedVariants

\* Whether the primitive type behind a variant can hold v.  Every sample value
\* fits every width of 16 bits or more.
Representable(variant, v) ==
    CASE variant = "U8" -> v \in 0..255
      [] variant = "I8" -> v \in -128..127
      [] variant \in UnsignedVariants \ {"U8"} -> v >= 0
      [] variant \in SignedVariants \ {"I8"} -> TRUE

IntegerOf(variant, v) == [variant |-> variant, value |-> v]

Integer ==
    {i \in [variant : IntegerVariants, value : IntegerValues] :
        Representable(i.variant, i.value)}

Digit(d) == SubSeq("0123456789", d + 1, d + 1)

\* Display of the unsigned primitives: the decimal digits.
RECURSIVE FmtUnsigned(_)
FmtUnsigned(n) ==
    IF n < 10 THEN Digit(n) ELSE FmtUnsigned(n \div 10) \o Digit(n % 10)

\* Display of the signed primitives: a minus sign before the digits of a
\* negative number.
FmtSigned(n) == IF n < 0 THEN "-" \o FmtUnsigned(-n) ELSE FmtUnsigned(n)

\* DisplayInteger with the suffix of a typed Rust literal (7u8).
DisplayIntegerSuffixed(i) ==
    (IF i.variant \in SignedVariants THEN FmtSigned(i.value) ELSE FmtUnsigned(i.value))
    \o (CASE i.variant = "U8" -> "u8" [] i.variant = "U16" -> "u16"
           [] i.variant = "U32" -> "u32" [] i.variant = "U64" -> "u64"
           [] i.variant = "U128" -> "u128" [] i.variant = "Usize" -> "usize"
           [] i.variant = "I8" -> "i8" [] i.variant = "I16" -> "i16"
           [] i.variant = "I32" -> "i32" [] i.variant = "I64" -> "i64"
           [] i.variant = "I128" -> "i128" [] i.variant = "Isize" -> "isize")

\* impl fmt::Display for Integer
DisplayInteger(i) ==
    CASE i.variant = "U8" -> FmtUnsigned(i.value)
      [] i.variant = "U16" -> FmtUnsigned(i.value)
      [] i.variant = "U32" -> FmtUnsigned(i.value)
      [] i.variant = "U64" -> FmtUnsigned(i.value)
      [] i.variant = "U128" -> FmtUnsigned(i.value)
      [] i.variant = "Usize" -> FmtUnsigned(i.value)
      [] i.variant = "I8" -> FmtSigned(i.value)
      [] i.variant = "I16" -> FmtSigned(i.value)
      [] i.variant = "I32" -> FmtSigned(i.value)
      [] i.variant = "I64" -> FmtSigned(i.value)
      [] i.variant = "I128" -> FmtSigned(i.value)
      [] i.variant = "Isize" -> FmtSigned(i.value)

NoInteger == [variant |-> "none", value |-> 0]

\* format!("{}", intA)
FmtA ==
    /\ intA # NoInteger
    /\ textA = NoText
    /\ textA' = Written(DisplayInteger(intA))
    /\ UNCHANGED <<intA, intB, textB, errorVars, convVars, eqVars, serVars>>

\* format!("{}", intB)
FmtB ==
    /\ intB # NoInteger
    /\ textB = NoText
    /\ textB' = Written(DisplayInteger(intB))
    /\ UNCHANGED <<intA, intB, textA, errorVars, convVars, eqVars, serVars>>

(***************************************************************************)
(* meta.rs: Float, MapKey, Expr, MapEntry.  A float is named by the text   *)
(* of its value; "NaN" is a not-a-number, "0" and "-0" the two zeros.      *)
(***************************************************************************)
FloatValues == {"1.5", "12.7", "0", "-0", "NaN", "inf"}
F32(v) == [variant |-> "F32", value |-> v]
F64(v) == [variant |-> "F64", value |-> v]
Float == {F32(v) : v \in FloatValues} \cup {F64(v) : v \in FloatValues}

StrValues == {"cookie", "server", ""}

MapKeyStr(v) == [enum |-> "MapKey", variant |-> "Str", str |-> v]
MapKeyFloat(v) == [enum |-> "MapKey", variant |-> "Float", float |-> v]
MapKeyInteger(v) == [enum |-> "MapKey", variant |-> "Integer", integer |-> v]
MapKeyBool(v) == [enum |-> "MapKey", variant |-> "Bool", bool |-> v]

ExprStr(v) == [enum |-> "Expr", variant |-> "Str", str |-> v]
ExprFloat(v) == [enum |-> "Expr", variant |-> "Float", float |-> v]
ExprInteger(v) == [enum |-> "Expr", variant |-> "Integer", integer |-> v]
ExprBool(v) == [enum |-> "Expr", variant |-> "Bool", bool |-> v]
ExprArray(v) == [enum |-> "Expr", variant |-> "Array", array |-> v]
ExprMap(v) == [enum |-> "Expr", variant |-> "Map", map |-> v]

MapEntry(k, v) == [key |-> k, value |-> v]

MapKey ==
    {MapKeyStr(v) : v \in StrValues}
    \cup {MapKeyFloat(v) : v \in Float}
    \cup {MapKeyInteger(v) : v \in Integer}
    \cup {MapKeyBool(v) : v \in BOOLEAN}

\* ExprFrom with every integer key widened to the widest signed variant.
ExprFromWidening(src) ==
    CASE src.variant = "Str" -> ExprStr(src.str)
      [] src.variant = "Integer" ->
            ExprInteger(IntegerOf("I128", src.integer.value))
      [] src.variant = "Float" -> ExprFloat(src.float)
      [] src.variant = "Bool" -> ExprBool(src.bool)

\* impl From<MapKey> for Expr
ExprFrom(src) ==
    CASE src.variant = "Str" -> ExprStr(src.str)
      [] src.variant = "Integer" -> ExprInteger(src.integer)
      [] src.variant = "Float" -> ExprFloat(src.float)
      [] src.variant = "Bool" -> ExprBool(src.bool)

NoMapKey == [enum |-> "MapKey", variant |-> "none"]
NoExpr == [enum |-> "Expr", variant |-> "none"]

\* Expr::from(key)
Convert ==
    /\ key # NoMapKey
    /\ converted = NoExpr
    /\ converted' = ExprFrom(key)
    /\ UNCHANGED <<key, errorVars, displayVars, eqVars, serVars>>

(***************************************************************************)
(* meta.rs: the derived PartialEq of Float, Integer, MapKey, MapEntry and  *)
(* Expr.  A derived == holds when both sides are the same variant and the  *)
(* fields compare equal with the fields' own ==.                           *)
(***************************************************************************)
\* == of f32 and f64 (IEEE 754): a NaN equals nothing, the two zeros are equal.
PrimitiveFloatEq(x, y) ==
    /\ x # "NaN"
    /\ y # "NaN"
    /\ \/ x = y
       \/ {x, y} = {"0", "-0"}

\* #[derive(PartialEq)] on Float
FloatEq(a, b) == a.variant = b.variant /\ PrimitiveFloatEq(a.value, b.value)

\* IntegerEq comparing the numbers alone, as == of two widened integers would.
IntegerEqByNumber(a, b) == a.value = b.value

\* #[derive(PartialEq, Eq)] on Integer
IntegerEq(a, b) == a.variant = b.variant /\ a.value = b.value

\* #[derive(PartialEq)] on MapKey
MapKeyEq(a, b) ==
    /\ a.variant = b.variant
    /\ CASE a.variant = "Str" -> a.str = b.str
         [] a.variant = "Float" -> FloatEq(a.float, b.float)
         [] a.variant = "Integer" -> IntegerEq(a.integer, b.integer)
         [] a.variant = "Bool" -> a.bool = b.bool

\* #[derive(PartialEq)] on Expr, with == of slices (equal lengths and equal
\* elements at every index) and #[derive(PartialEq)] on MapEntry.
RECURSIVE ExprEq(_, _)
ExprEq(a, b) ==
    /\ a.variant = b.variant
    /\ CASE a.variant = "Str" -> a.str = b.str
         [] a.variant = "Float" -> FloatEq(a.float, b.float)
         [] a.variant = "Integer" -> IntegerEq(a.integer, b.integer)
         [] a.variant = "Bool" -> a.bool = b.bool
         [] a.variant = "Array" ->
              /\ Len(a.array) = Len(b.array)
              /\ \A i \in 1..Len(a.array) : ExprEq(a.array[i], b.array[i])
         [] a.variant = "Map" ->
              /\ Len(a.map) = Len(b.map)
              /\ \A i \in 1..Len(a.map) :
                    /\ MapKeyEq(a.map[i].key, b.map[i].key)
                    /\ ExprEq(a.map[i].value, b.map[i].value)

\* The longest map given to serialize_map, and the longest array or map
\* among the operands of ==.
MaxLen == 3
MaxEqLen == 2

SeqsUpTo(S, n) == UNION {[1..m -> S] : m \in 0..n}

\* The entries of the sample maps: the default of Headers::score in
\* test_utils/example1.rs, a second value under the key "cookie", and an
\* integer key.
MapEntries ==
    { MapEntry(MapKeyStr("cookie"), ExprFloat(F32("1.5"))),
      MapEntry(MapKeyStr("server"), ExprFloat(F32("12.7"))),
      MapEntry(MapKeyStr("cookie"), ExprFloat(F32("12.7"))),
      MapEntry(MapKeyInteger(IntegerOf("U16", 80)), ExprBool(TRUE)),
      MapEntry(MapKeyBool(FALSE), ExprStr("server")) }

Maps == SeqsUpTo(MapEntries, MaxLen)

ScalarExprs ==
    { ExprStr("cookie"), ExprStr("server"),
      ExprFloat(F32("1.5")), ExprFloat(F64("1.5")), ExprFloat(F32("NaN")),
      ExprFloat(F32("0")), ExprFloat(F32("-0")),
      ExprInteger(IntegerOf("U8", 7)), ExprInteger(IntegerOf("U64", 7)),
      ExprInteger(IntegerOf("I64", 7)), ExprInteger(IntegerOf("U16", 80)),
      ExprBool(TRUE), ExprBool(FALSE) }

\* The entries of the maps compared by ==.
EqEntries ==
    { MapEntry(MapKeyStr("cookie"), ExprFloat(F32("1.5"))),
      MapEntry(MapKeyStr("server"), ExprFloat(F32("12.7"))),
      MapEntry(MapKeyInteger(IntegerOf("U16", 80)), ExprBool(TRUE)) }

ArrayElements ==
    { ExprInteger(IntegerOf("U8", 7)), ExprInteger(IntegerOf("U64", 7)),
      ExprFloat(F64("NaN")) }

NestedExprs ==
    { ExprArray(<<ExprMap(<<a, b>>)>>) :
        a \in {e \in EqEntries : e.key.variant = "Str"},
        b \in {e \in EqEntries : e.key.variant = "Integer"} }
    \cup { ExprMap(<<MapEntry(MapKeyBool(b), ExprArray(<<ExprFloat(F32(z))>>))>>) :
             b \in BOOLEAN, z \in {"0", "-0"} }

Exprs ==
    ScalarExprs
    \cup {ExprArray(a) : a \in SeqsUpTo(ArrayElements, MaxEqLen)}
    \cup {ExprMap(m) : m \in SeqsUpTo(EqEntries, MaxEqLen)}
    \cup NestedExprs

\* lhs == rhs
PartialEq ==
    /\ lhs # NoExpr
    /\ rhs # NoExpr
    /\ eq = NotCalled
    /\ eq' = Returned(ExprEq(lhs, rhs))
    /\ UNCHANGED <<lhs, rhs, errorVars, displayVars, convVars, serVars>>

(***************************************************************************)
(* meta.rs: serialize_map.  The serializer is the caller's: it records the *)
(* length it was told and the key/value pairs it was handed, and any of    *)
(* its calls may fail.  serialize_map makes Len(map) + 2 calls; failAt is  *)
(* the number of the call that fails, 0 when none does.                    *)
(***************************************************************************)
NewSerializer == [len |-> None, entries |-> <<>>, ended |-> FALSE]

\* The for loop from entry i on: s.serialize_entry(&entry.key, &entry.value)?
RECURSIVE SerializeEntries(_, _, _, _)
SerializeEntries(s, m, i, failAt) ==
    IF i > Len(m) THEN [s |-> s, ret |-> "Ok"]
    ELSE IF failAt = i + 1 THEN [s |-> s, ret |-> "Err"]
    ELSE SerializeEntries(
            [s EXCEPT !.entries = Append(@, <<m[i].key, m[i].value>>)],
            m, i + 1, failAt)

\* The entries of m whose key no earlier entry has: what collecting m into a
\* keyed map before serializing would keep.
RECURSIVE FirstOfEachKey(_, _)
FirstOfEachKey(m, seen) ==
    IF m = <<>> THEN <<>>
    ELSE IF Head(m).key \in seen THEN FirstOfEachKey(Tail(m), seen)
    ELSE <<Head(m)>> \o FirstOfEachKey(Tail(m), seen \cup {Head(m).key})

\* serialize_map over the entries with distinct keys only.
serialize_map_distinct_keys(m, serializer, failAt) ==
    LET d == FirstOfEachKey(m, {})
    IN  IF failAt = 1 THEN [s |-> serializer, ret |-> "Err"]
        ELSE LET begun == [serializer EXCEPT !.len = Some(Len(d))]
                 looped == SerializeEntries(begun, d, 1, failAt)
             IN  IF looped.ret = "Err" THEN looped
                 ELSE IF failAt = Len(d) + 2 THEN [s |-> looped.s, ret |-> "Err"]
                 ELSE [s |-> [looped.s EXCEPT !.ended = TRUE], ret |-> "Ok"]

\* fn serialize_map
serialize_map(m, serializer, failAt) ==
    IF failAt = 1 THEN [s |-> serializer, ret |-> "Err"]
    ELSE LET begun == [serializer EXCEPT !.len = Some(Len(m))]
             looped == SerializeEntries(begun, m, 1, failAt)
         IN  IF looped.ret = "Err" THEN looped
             ELSE IF failAt = Len(m) + 2 THEN [s |-> looped.s, ret |-> "Err"]
             ELSE [s |-> [looped.s EXCEPT !.ended = TRUE], ret |-> "Ok"]

NoMap == <<[key |-> NoMapKey, value |-> NoExpr]>>

\* Serializing Expr::Map(map) with a fresh serializer
SerializeMap(failAt) ==
    LET r == serialize_map(map, ser, failAt)
    IN  /\ map # NoMap
        /\ ret = "none"
        /\ ser' = r.s
        /\ ret' = r.ret
        /\ UNCHANGED <<map, errorVars, displayVars, convVars, eqVars>>

(***************************************************************************)
(* Specifications: one per part of the library.  The pure functions of     *)
(* meta.rs are applied to inputs drawn by the initial condition.           *)
(***************************************************************************)
ErrorIdle ==
    /\ error = NoError
    /\ shown = NoText
    /\ debugged = NoText
    /\ cause = NotCalled

DisplayIdle ==
    /\ intA = NoInteger
    /\ intB = NoInteger
    /\ textA = NoText
    /\ textB = NoText

ConvIdle ==
    /\ key = NoMapKey
    /\ converted = NoExpr

EqIdle ==
    /\ lhs = NoExpr
    /\ rhs = NoExpr
    /\ eq = NotCalled

SerIdle ==
    /\ map = NoMap
    /\ ser = NewSerializer
    /\ ret = "none"

\* error.rs
Init == ErrorIdle /\ DisplayIdle /\ ConvIdle /\ EqIdle /\ SerIdle

Next ==
    \/ \E inner \in ErrorInner : From(inner)
    \/ DisplayFmt
    \/ DebugFmt
    \/ SourceCall

Spec == Init /\ [][Next]_vars

\* meta.rs: Display of Integer
DisplayInit ==
    /\ intA \in Integer
    /\ intB \in Integer
    /\ textA = NoText
    /\ textB = NoText
    /\ ErrorIdle /\ ConvIdle /\ EqIdle /\ SerIdle

DisplayNext == FmtA \/ FmtB

DisplaySpec == DisplayInit /\ [][DisplayNext]_vars

\* meta.rs: From<MapKey> for Expr
ConvInit ==
    /\ key \in MapKey
    /\ converted = NoExpr
    /\ ErrorIdle /\ DisplayIdle /\ EqIdle /\ SerIdle

ConvNext == Convert

ConvSpec == ConvInit /\ [][ConvNext]_vars

\* meta.rs: == of Expr
EqInit ==
    /\ lhs \in Exprs
    /\ rhs \in Exprs
    /\ eq = NotCalled
    /\ ErrorIdle /\ DisplayIdle /\ ConvIdle /\ SerIdle

EqNext == PartialEq

EqSpec == EqInit /\ [][EqNext]_vars

\* meta.rs: serialize_map
SerInit ==
    /\ map \in Maps
    /\ ser = NewSerializer
    /\ ret = "none"
    /\ ErrorIdle /\ DisplayIdle /\ ConvIdle /\ EqIdle

SerNext == \E failAt \in 0..(Len(map) + 2) : SerializeMap(failAt)

SerSpec == SerInit /\ [][SerNext]_vars

(***************************************************************************)
(* The claims.                                                             *)
(***************************************************************************)
\* Whether sub occurs in text.
Contains(text, sub) ==
    \E i \in 1..(Len(text) - Len(sub) + 1) : SubSeq(text, i, i + Len(sub) - 1) = sub

IsEnvDeserialization == error.inner.kind = "EnvDeserialization"

\* C1, as stated: the Display text of EnvDeserialization{field, key, msg} is
\* "failed to deserialize value 'field' from environment variable 'key': msg",
\* the field and the key each between apostrophes.
C1_ApostropheQuoted ==
    (shown.written /\ IsEnvDeserialization) =>
        shown.text = "failed to deserialize value '" \o error.inner.field
                     \o "' from environment variable '" \o error.inner.key
                     \o "': " \o error.inner.msg

\* C1, amended: the Display text of EnvDeserialization{field, key, msg} is
\* "failed to deserialize value " + ` + field + ` +
\* " from environment variable " + ` + key + ` + ": " + msg: the field and the
\* key each stand between two grave accents (U+0060), and the text holds no
\* apostrophe that the payload does not bring.
C1_GraveAccentQuoted ==
    (shown.written /\ IsEnvDeserialization) =>
        LET f == error.inner.field
            k == error.inner.key
            head == "failed to deserialize value "
            mid == " from environment variable "
            q1 == Len(head) + 1
            q2 == q1 + Len(f) + 1
            q3 == q2 + Len(mid) + 1
            q4 == q3 + Len(k) + 1
        IN  /\ Len(shown.text) = q4 + 2 + Len(error.inner.msg)
            /\ \A q \in {q1, q2, q3, q4} : SubSeq(shown.text, q, q) = GraveAccent
            /\ SubSeq(shown.text, 1, q1 - 1) = head
            /\ SubSeq(shown.text, q1 + 1, q2 - 1) = f
            /\ SubSeq(shown.text, q2 + 1, q3 - 1) = mid
            /\ SubSeq(shown.text, q3 + 1, q4 - 1) = k
            /\ SubSeq(shown.text, q4 + 1, Len(shown.text)) = ": " \o error.inner.msg
            /\ ~Contains(shown.text, "'")

\* C1's case: EnvDeserialization{field: "port", key: "PORT", msg: "invalid
\* digit"} has been displayed.
C1_Witness ==
    /\ error = ErrorFrom(EnvDeserialization("port", "PORT", "invalid digit"))
    /\ shown.written
    /\ Len(shown.text) = 82
    /\ SubSeq(shown.text, 29, 34) = GraveAccent \o "port" \o GraveAccent
    /\ SubSeq(shown.text, 62, 82) = GraveAccent \o "PORT" \o GraveAccent \o ": invalid digit"

\* C2: the Display text of MissingValue(p) is
\* "required configuration value is missing: 'p'", with p verbatim between
\* apostrophes, dots included.
C2_MissingValueText ==
    (shown.written /\ error.inner.kind = "MissingValue") =>
        LET p == error.inner.f0
            head == "required configuration value is missing: '"
        IN  /\ shown.text = head \o p \o "'"
            /\ Len(shown.text) = Len(head) + Len(p) + 1
            /\ SubSeq(shown.text, Len(head) + 1, Len(head) + Len(p)) = p

\* C2's case: MissingValue("outer.inner.port") has been displayed.
C2_Witness ==
    /\ error = ErrorFrom(MissingValue("outer.inner.port"))
    /\ shown = Written("required configuration value is missing: 'outer.inner.port'")

\* C3: the Display text of an Io error is "IO error occured while reading
\* configuration file 'p'" when the path is Some(p), p as Path::display writes
\* it, and "IO error occured while loading configuration" when it is None; the
\* cause is no part of it.
C3_IoText ==
    (shown.written /\ error.inner.kind = "Io") =>
        LET path == error.inner.path
            head == "IO error occured while reading configuration file '"
        IN  /\ path.some => shown.text = head \o PathDisplay(path.value) \o "'"
            /\ (path.some /\ IsUtf8(path.value) /\ Len(path.value) = 1) =>
                    shown.text = head \o path.value[1].text \o "'"
            /\ ~path.some =>
                    shown.text = "IO error occured while loading configuration"
            /\ ~Contains(shown.text, error.inner.err)

\* C3's case: an Io error with the path /etc/app.toml has been displayed.
C3_Witness ==
    /\ error.inner.kind = "Io"
    /\ error.inner.path = Some(<<Utf8("/etc/app.toml")>>)
    /\ shown = Written("IO error occured while reading configuration file '/etc/app.toml'")

\* C4: the Display text of a Deserialization error is "failed to deserialize
\* configuration from l" when the source label is Some(l), the label unquoted,
\* and "failed to deserialize configuration" when it is None; the cause is no
\* part of it.
C4_DeserializationText ==
    (shown.written /\ error.inner.kind = "Deserialization") =>
        LET source == error.inner.source
        IN  /\ source.some =>
                    shown.text = "failed to deserialize configuration from " \o source.value
            /\ ~source.some => shown.text = "failed to deserialize configuration"
            /\ ~Contains(shown.text, error.inner.err)

\* C4's case: a Deserialization error with the label file 'foo.toml' has been
\* displayed.
C4_Witness ==
    /\ error.inner.kind = "Deserialization"
    /\ error.inner.source = Some("file 'foo.toml'")
    /\ shown = Written("failed to deserialize configuration from file 'foo.toml'")

\* C5: source() returns a cause exactly for the kinds Io and Deserialization,
\* and that cause is the err of the payload; for the five other kinds it
\* returns None.
C5_SourceChain ==
    cause.called =>
        /\ cause.value.some <=> error.inner.kind \in {"Io", "Deserialization"}
        /\ cause.value.some => cause.value.value = error.inner.err
        /\ error.inner.kind \in {"MissingValue", "EnvDeserialization",
                "UnsupportedFileFormat", "MissingFileExtension",
                "MissingRequiredFile"} => cause.value = None

\* C5's case: source() was called on a Deserialization error and returned its
\* boxed cause.
C5_Witness ==
    /\ error.inner.kind = "Deserialization"
    /\ cause = Returned(Some("unexpected end of input"))

\* C10: the Debug text of an Error is the Display text, character for
\* character; the Debug text of an Io or Deserialization error holds neither
\* the text of the cause nor the name of the kind.
C10_DebugIsDisplay ==
    /\ (shown.written /\ debugged.written) => debugged.text = shown.text
    /\ (debugged.written /\ error.inner.kind \in {"Io", "Deserialization"}) =>
            /\ ~Contains(debugged.text, error.inner.err)
            /\ ~Contains(debugged.text, error.inner.kind)

\* C10's case: an Io error has been written by both Display and Debug.
C10_Witness ==
    /\ error.inner.kind = "Io"
    /\ error.inner.path = None
    /\ shown.written
    /\ debugged = Written("IO error occured while loading configuration")

\* The pairs that serialize_entry should have been handed for the first n
\* entries of m.
PairsOf(m, n) == [i \in 1..n |-> <<m[i].key, m[i].value>>]

\* C6: serialize_map of N entries tells the serializer the length N and hands
\* it N key/value pairs, the i-th the key and the value of the i-th entry:
\* nothing is reordered, merged or dropped.  When a call of the serializer
\* fails, what it was handed until then is the entries' prefix, in order.
C6_EntriesInOrder ==
    /\ ret = "Ok" =>
            /\ ser.len = Some(Len(map))
            /\ ser.entries = PairsOf(map, Len(map))
            /\ ser.ended
    /\ ret = "Err" =>
            /\ Len(ser.entries) <= Len(map)
            /\ ser.entries = PairsOf(map, Len(ser.entries))
            /\ ser.len \in {None, Some(Len(map))}
            /\ ~ser.ended

\* C6's case: a map whose keys are not in sorted order and hold "cookie"
\* twice has been serialized in full.
C6_Witness ==
    /\ ret = "Ok"
    /\ map = << MapEntry(MapKeyStr("server"), ExprFloat(F32("12.7"))),
                MapEntry(MapKeyStr("cookie"), ExprFloat(F32("1.5"))),
                MapEntry(MapKeyStr("cookie"), ExprFloat(F32("12.7"))) >>
    /\ ser.len = Some(3)
    /\ Len(ser.entries) = 3
    /\ ser.entries[1][1] = MapKeyStr("server")
    /\ ser.entries[3] = <<MapKeyStr("cookie"), ExprFloat(F32("12.7"))>>

\* The payload of a MapKey or of a scalar Expr.
Payload(x) ==
    CASE x.variant = "Str" -> [str |-> x.str]
      [] x.variant = "Float" -> [float |-> x.float]
      [] x.variant = "Integer" -> [integer |-> x.integer]
      [] x.variant = "Bool" -> [bool |-> x.bool]

\* C7: Expr::from(key) is defined for every MapKey and is the Expr of the same
\* variant with the same payload, the width of an integer or float included;
\* it is never an Array or a Map, and no other MapKey converts to it.
C7_FromMapKeyLossless ==
    /\ (key # NoMapKey /\ converted = NoExpr) => ENABLED Convert
    /\ converted # NoExpr =>
            /\ converted.enum = "Expr"
            /\ converted.variant \in {"Str", "Float", "Integer", "Bool"}
            /\ converted.variant = key.variant
            /\ Payload(converted) = Payload(key)
            /\ \A other \in MapKey : other # key => ExprFrom(other) # converted

\* C7's case: MapKey::Integer(U16(80)) has been converted.
C7_Witness ==
    /\ key = MapKeyInteger(IntegerOf("U16", 80))
    /\ converted = ExprInteger(IntegerOf("U16", 80))

DecimalDigits == {"0", "1", "2", "3", "4", "5", "6", "7", "8", "9"}

\* The number a string of decimal digits denotes.
RECURSIVE DecimalValue(_)
DecimalValue(t) ==
    IF Len(t) = 0 THEN 0
    ELSE 10 * DecimalValue(SubSeq(t, 1, Len(t) - 1))
         + (CHOOSE d \in 0..9 : SubSeq("0123456789", d + 1, d + 1) = SubSeq(t, Len(t), Len(t)))

\* t is one or more decimal digits with no needless leading zero, and denotes n.
IsDigitsOf(t, n) ==
    /\ Len(t) >= 1
    /\ \A i \in 1..Len(t) : SubSeq(t, i, i) \in DecimalDigits
    /\ Len(t) > 1 => SubSeq(t, 1, 1) # "0"
    /\ DecimalValue(t) = n

\* t is the plain decimal text of v: the digits, after a minus sign when v < 0.
IsPlainDecimal(t, v) ==
    IF v < 0
    THEN Len(t) >= 2 /\ SubSeq(t, 1, 1) = "-" /\ IsDigitsOf(SubSeq(t, 2, Len(t)), -v)
    ELSE IsDigitsOf(t, v)

\* C8: Display of an Integer of any of the 12 variants writes the plain
\* decimal text of its value and nothing of its width, so two Integers of
\* different variants holding the same number are written alike.
C8_PlainDecimal ==
    /\ textA.written => IsPlainDecimal(textA.text, intA.value)
    /\ textB.written => IsPlainDecimal(textB.text, intB.value)
    /\ (textA.written /\ textB.written /\ intA.value = intB.value) =>
            textA.text = textB.text

\* C8's case: U8(7) and I64(7) have both been displayed, as "7".
C8_Witness ==
    /\ intA = IntegerOf("U8", 7)
    /\ intB = IntegerOf("I64", 7)
    /\ textA = Written("7")
    /\ textB = Written("7")

\* C9, as stated: two Expr values are equal if and only if they are the same
\* variant with the same payload.
C9_Structural ==
    eq.called => (eq.value <=> lhs = rhs)

CanonFloat(f) == IF f.value = "-0" THEN [f EXCEPT !.value = "0"] ELSE f

CanonKey(k) ==
    IF k.variant = "Float" THEN [k EXCEPT !.float = CanonFloat(@)] ELSE k

\* e with every negative zero among its floats replaced by the positive zero.
RECURSIVE Canon(_)
Canon(e) ==
    CASE e.variant = "Float" -> [e EXCEPT !.float = CanonFloat(@)]
      [] e.variant = "Array" ->
            [e EXCEPT !.array = [i \in 1..Len(@) |-> Canon(@[i])]]
      [] e.variant = "Map" ->
            [e EXCEPT !.map = [i \in 1..Len(@) |->
                                 MapEntry(CanonKey(@[i].key), Canon(@[i].value))]]
      [] OTHER -> e

\* Whether a NaN is among the floats of e.
RECURSIVE HasNaN(_)
HasNaN(e) ==
    CASE e.variant = "Float" -> e.float.value = "NaN"
      [] e.variant = "Array" -> \E i \in 1..Len(e.array) : HasNaN(e.array[i])
      [] e.variant = "Map" ->
            \E i \in 1..Len(e.map) :
                \/ (e.map[i].key.variant = "Float" /\ e.map[i].key.float.value = "NaN")
                \/ HasNaN(e.map[i].value)
      [] OTHER -> FALSE

\* C9, amended: two Expr values are equal if and only if they are the same
\* variant with the same payload, floats being compared as f32 and f64 are: a
\* value that holds a NaN equals nothing, itself included, and 0.0 equals
\* -0.0.  Integers of different widths holding the same number are unequal,
\* and two maps are equal only when they have the same length and their
\* entries match position by position.
C9_StructuralUpToFloats ==
    eq.called =>
        /\ eq.value <=> (~HasNaN(lhs) /\ Canon(lhs) = Canon(rhs))
        /\ (lhs.variant = "Integer" /\ rhs.variant = "Integer"
            /\ lhs.integer.variant # rhs.integer.variant) => ~eq.value
        /\ (lhs.variant = "Map" /\ rhs.variant = "Map" /\ eq.value) =>
              /\ Len(lhs.map) = Len(rhs.map)
              /\ \A i \in 1..Len(lhs.map) :
                    /\ lhs.map[i].key = rhs.map[i].key
                    /\ Canon(lhs.map[i].value) = Canon(rhs.map[i].value)

\* C9's case: two maps of the same two entries in opposite orders have been
\* compared, and are unequal.
C9_Witness ==
    /\ lhs = ExprMap(<< MapEntry(MapKeyStr("cookie"), ExprFloat(F32("1.5"))),
                        MapEntry(MapKeyStr("server"), ExprFloat(F32("12.7"))) >>)
    /\ rhs = ExprMap(<< MapEntry(MapKeyStr("server"), ExprFloat(F32("12.7"))),
                        MapEntry(MapKeyStr("cookie"), ExprFloat(F32("1.5"))) >>)
    /\ eq = Returned(FALSE)

====
